---- MODULE Spec2Model ----
(***************************************************************************)
(* Model of app.py: the Flask form endpoint hello, the JSON endpoint       *)
(* api_search, the retrieval routine perform_vector_search and the model   *)
(* client wrapper get_llm_response.                                        *)
(*                                                                         *)
(* A Python str is a sequence of tokens (one token per character, a fixed  *)
(* literal of the source being one token).  A value that may be None is a  *)
(* sequence of length 0 (None) or 1 (the value): None == <<>>,             *)
(* Some(v) == <<v>>, so that None and the empty string differ.             *)
(***************************************************************************)
EXTENDS Integers, Sequences, FiniteSets, TLC

\* ---------------------------------------------------------------- bounds
MaxRows == 2
MaxRequests == 2

\* ------------------------------------------------------ Python values
None == <<>>
Some(v) == <<v>>

Truthy(opt) == opt # None /\ opt[1] # <<>>

Whitespace == {" "}

IsBlank(opt) == opt = None \/ \A i \in 1..Len(opt[1]) : opt[1][i] \in Whitespace

\* ------------------------------------------------------ input domains
QueryTexts == {<<>>, <<" ">>, <<"q">>}
FormQueries == {None} \cup {Some(q) : q \in QueryTexts}
Keywords == {None, Some(<<>>), Some(<<"k">>)}
MinScores == {-1, 0, 4, 6}
MinTextLengths == {0, 50}
MaxResultsVals == {0, 3, 5}
Reviews == {<<5, <<"A">>>>, <<2, <<"B">>>>, <<5, <<>>>>}
Outputs == {<<>>, <<"X">>}

DefaultMaxResults == 5
DefaultMinScore == 4
DefaultMinTextLength == 50
HelloMaxResults == 3
DetailedThreshold == 100

\* ------------------------------------------------------ SQL construction
\* The statement is a sequence of tokens; "?" is a placeholder.
SqlBase == <<"EXEC dbo.GET_EMBEDDINGS @text =", "?", "SELECT TOP(", "?", ") ... WHERE 1=1">>
SqlAnonymous == <<" AND f.UserId NOT LIKE 'Anonymous%'">>
SqlMinScore == <<" AND f.Score >=", "?">>
SqlMinLength == <<" AND LEN(f.Text) >", "?">>
SqlKeyword == <<" AND f.Text LIKE", "?">>
SqlOrderBy == <<" ORDER BY Distance, f.Score DESC, ReviewLength DESC;">>

LikePattern(kw) == <<"%">> \o kw \o <<"%">>

\* A bound parameter carries its Python type.
StrParam(s) == <<"str", s>>
IntParam(n) == <<"int", n>>

\* BuildSql with the min-score clause appended for min_score = 0 as well.
BuildSqlScoreFromZero(f) ==
    LET s0 == SqlBase
        s1 == IF f.exclude_anonymous THEN s0 \o SqlAnonymous ELSE s0
        s2 == IF f.min_score >= 0 THEN s1 \o SqlMinScore ELSE s1
        s3 == IF f.min_text_length > 0 THEN s2 \o SqlMinLength ELSE s2
        s4 == IF Truthy(f.keyword) THEN s3 \o SqlKeyword ELSE s3
    IN  s4 \o SqlOrderBy

BuildSql(f) ==
    LET s0 == SqlBase
        s1 == IF f.exclude_anonymous THEN s0 \o SqlAnonymous ELSE s0
        s2 == IF f.min_score > 0 THEN s1 \o SqlMinScore ELSE s1
        s3 == IF f.min_text_length > 0 THEN s2 \o SqlMinLength ELSE s2
        s4 == IF Truthy(f.keyword) THEN s3 \o SqlKeyword ELSE s3
    IN  s4 \o SqlOrderBy

\* BuildParams with min_text_length appended before min_score.
BuildParamsLengthFirst(f) ==
    LET p0 == <<StrParam(f.user_message), IntParam(f.max_results)>>
        p1 == IF f.min_text_length > 0 THEN Append(p0, IntParam(f.min_text_length)) ELSE p0
        p2 == IF f.min_score > 0 THEN Append(p1, IntParam(f.min_score)) ELSE p1
        p3 == IF Truthy(f.keyword) THEN Append(p2, StrParam(LikePattern(f.keyword[1]))) ELSE p2
    IN  p3

BuildParams(f) ==
    LET p0 == <<StrParam(f.user_message), IntParam(f.max_results)>>
        p1 == IF f.min_score > 0 THEN Append(p0, IntParam(f.min_score)) ELSE p0
        p2 == IF f.min_text_length > 0 THEN Append(p1, IntParam(f.min_text_length)) ELSE p1
        p3 == IF Truthy(f.keyword) THEN Append(p2, StrParam(LikePattern(f.keyword[1]))) ELSE p2
    IN  p3

\* ------------------------------------------------------ rows and records
ReviewLength(text) == IF Len(text) > DetailedThreshold THEN "Detailed Review" ELSE "Short Review"

ScoreCategory(score) ==
    IF score >= 4 THEN "High Score"
    ELSE IF score >= 2 /\ score <= 3 THEN "Medium Score"
    ELSE "Low Score"

\* A row as the store returns it: Score, Summary, Text, Distance, ReviewLength, ScoreCategory.
Row(score, text) == <<score, <<"s">>, text, 0, ReviewLength(text), ScoreCategory(score)>>

Rows == {Row(r[1], r[2]) : r \in Reviews}

RowSeqs == UNION {[1..n -> Rows] : n \in 0..MaxRows}

MapRow(row) ==
    [score |-> row[1], summary |-> row[2], text |-> row[3], distance |-> row[4],
     review_length |-> row[5], score_category |-> row[6]]

MapRows(rs) == [i \in 1..Len(rs) |-> MapRow(rs[i])]

\* ------------------------------------------------------ context assembly
DigitChars == <<"0", "1", "2", "3", "4", "5", "6", "7", "8", "9">>

RECURSIVE NatStr(_)
NatStr(n) == IF n < 10 THEN <<DigitChars[n + 1]>> ELSE NatStr(n \div 10) \o <<DigitChars[(n % 10) + 1]>>

IntStr(n) == IF n < 0 THEN <<"-">> \o NatStr(-n) ELSE NatStr(n)

ReviewLine(r) == <<"Review (Score: ">> \o IntStr(r.score) \o <<"/5): ">> \o r.text

RECURSIVE Join(_, _)
Join(sep, parts) ==
    IF Len(parts) = 0 THEN <<>>
    ELSE IF Len(parts) = 1 THEN parts[1]
    ELSE Join(sep, SubSeq(parts, 1, Len(parts) - 1)) \o sep \o parts[Len(parts)]

\* FormatContext that joins whatever it is given, so no records give the empty string.
FormatContextAlwaysJoin(search_results) ==
    Some(Join(<<"\n\n">>, [i \in 1..Len(search_results) |-> ReviewLine(search_results[i])]))

FormatContext(search_results) ==
    IF Len(search_results) > 0
    THEN Some(Join(<<"\n\n">>, [i \in 1..Len(search_results) |-> ReviewLine(search_results[i])]))
    ELSE None

\* ------------------------------------------------------ prompt
\* BuildPrompt that applies the instruction template whatever the context.
BuildPromptAlwaysTemplate(query, context) ==
    <<"Based on the following information:", "\n            \n">>
    \o (IF context = None THEN <<"None">> ELSE context[1])
    \o <<"\n\n", "Answer the user's question: ">> \o query

BuildPrompt(query, context) ==
    IF Truthy(context)
    THEN <<"Based on the following information:", "\n            \n">> \o context[1]
         \o <<"\n\n", "Answer the user's question: ">> \o query
    ELSE query

\* ------------------------------------------------------ state
VARIABLES
    pc,           \* position of the request being served
    caller,       \* "none", "hello", "api" or "direct" (perform_vector_search called directly)
    reqNo,        \* requests started so far
    form,         \* request.form.get('req')
    data,         \* request.json
    filter,       \* arguments of perform_vector_search
    cnxn, cursor, \* locals of perform_vector_search (None while unbound)
    nextHandle,   \* next handle pyodbc hands out
    acquired,     \* handles acquired, in order
    open,         \* handles currently open
    sql, params,  \* statement and parameter list built by the call
    results,      \* results list of perform_vector_search
    pvsFailAt,    \* where the call failed: "none", "connect", "cursor", "execute", "fetchall", "map"
    pvsOutcome,   \* "none", "returned" or "raised"
    searchCalls,  \* perform_vector_search invocations in this request
    connects,     \* connection attempts in this call
    context,      \* local of hello
    llmCalls,     \* get_llm_response invocations in this request
    llmFailures,  \* of which raised
    prompts,      \* prompts passed to llm.invoke in this request, in order
    llmOut,       \* content of the last completion
    response      \* what the endpoint returned

vars == <<pc, caller, reqNo, form, data, filter, cnxn, cursor, nextHandle, acquired, open,
          sql, params, results, pvsFailAt, pvsOutcome, searchCalls, connects, context,
          llmCalls, llmFailures, prompts, llmOut, response>>

NoFilter ==
    [user_message |-> <<>>, max_results |-> 0, min_score |-> 0, min_text_length |-> 0,
     keyword |-> None, exclude_anonymous |-> FALSE]

NoData == [kind |-> "none", query |-> None, keyword |-> None, min_score |-> None, max_results |-> None]

NoResponse == [kind |-> "none", status |-> 0, answer |-> <<>>, results |-> <<>>, error |-> ""]

Init ==
    /\ pc = "idle"
    /\ caller = "none"
    /\ reqNo = 0
    /\ form = None
    /\ data = NoData
    /\ filter = NoFilter
    /\ cnxn = None
    /\ cursor = None
    /\ nextHandle = 1
    /\ acquired = <<>>
    /\ open = {}
    /\ sql = <<>>
    /\ params = <<>>
    /\ results = <<>>
    /\ pvsFailAt = "none"
    /\ pvsOutcome = "none"
    /\ searchCalls = 0
    /\ connects = 0
    /\ context = None
    /\ llmCalls = 0
    /\ llmFailures = 0
    /\ prompts = <<>>
    /\ llmOut = <<>>
    /\ response = NoResponse

\* The locals of a handler that has not run yet.
FreshLocals ==
    /\ cnxn' = None
    /\ cursor' = None
    /\ sql' = <<>>
    /\ params' = <<>>
    /\ results' = <<>>
    /\ pvsFailAt' = "none"
    /\ pvsOutcome' = "none"
    /\ connects' = 0
    /\ context' = None
    /\ llmCalls' = 0
    /\ llmFailures' = 0
    /\ prompts' = <<>>
    /\ llmOut' = <<>>

\* A new request starts with fresh locals; handles and their history persist.
NewRequest(who) ==
    /\ reqNo < MaxRequests
    /\ reqNo' = reqNo + 1
    /\ caller' = who
    /\ FreshLocals
    /\ UNCHANGED <<nextHandle, acquired, open>>

\* The response has been delivered and the handler's frame is gone.
Return ==
    /\ pc = "done"
    /\ pc' = "idle"
    /\ caller' = "none"
    /\ form' = None
    /\ data' = NoData
    /\ filter' = NoFilter
    /\ searchCalls' = 0
    /\ response' = NoResponse
    /\ FreshLocals
    /\ UNCHANGED <<reqNo, nextHandle, acquired, open>>

SearchArgs(user_message, max_results, min_score, min_text_length, keyword, exclude_anonymous) ==
    [user_message |-> user_message, max_results |-> max_results, min_score |-> min_score,
     min_text_length |-> min_text_length, keyword |-> keyword,
     exclude_anonymous |-> exclude_anonymous]

\* ------------------------------------------------------ perform_vector_search
PvsConnect ==
    /\ pc = "pvs_connect"
    /\ connects' = connects + 1
    /\ \/ /\ cnxn' = Some(nextHandle)
          /\ nextHandle' = nextHandle + 1
          /\ acquired' = Append(acquired, nextHandle)
          /\ open' = open \cup {nextHandle}
          /\ pc' = "pvs_cursor"
          /\ UNCHANGED pvsFailAt
       \/ /\ pvsFailAt' = "connect"
          /\ pc' = "pvs_finally"
          /\ UNCHANGED <<cnxn, nextHandle, acquired, open>>
    /\ UNCHANGED <<caller, reqNo, form, data, filter, cursor, sql, params, results, pvsOutcome,
                   searchCalls, context, llmCalls, llmFailures, prompts, llmOut, response>>

PvsCursor ==
    /\ pc = "pvs_cursor"
    /\ \/ /\ cursor' = Some(nextHandle)
          /\ nextHandle' = nextHandle + 1
          /\ acquired' = Append(acquired, nextHandle)
          /\ open' = open \cup {nextHandle}
          /\ pc' = "pvs_execute"
          /\ UNCHANGED pvsFailAt
       \/ /\ pvsFailAt' = "cursor"
          /\ pc' = "pvs_finally"
          /\ UNCHANGED <<cursor, nextHandle, acquired, open>>
    /\ UNCHANGED <<caller, reqNo, form, data, filter, cnxn, sql, params, results, pvsOutcome,
                   searchCalls, connects, context, llmCalls, llmFailures, prompts, llmOut,
                   response>>

PvsExecute ==
    /\ pc = "pvs_execute"
    /\ sql' = BuildSql(filter)
    /\ params' = BuildParams(filter)
    /\ \/ /\ pc' = "pvs_fetch"
          /\ UNCHANGED pvsFailAt
       \/ /\ pvsFailAt' = "execute"
          /\ pc' = "pvs_finally"
    /\ UNCHANGED <<caller, reqNo, form, data, filter, cnxn, cursor, nextHandle, acquired, open,
                   results, pvsOutcome, searchCalls, connects, context, llmCalls, llmFailures,
                   prompts, llmOut, response>>

PvsFetch ==
    /\ pc = "pvs_fetch"
    /\ pc' = "pvs_finally"
    /\ \/ \E rows \in RowSeqs :
             /\ results' = MapRows(rows)
             /\ UNCHANGED pvsFailAt
       \/ /\ pvsFailAt' \in {"fetchall", "map"}
          /\ UNCHANGED results
    /\ UNCHANGED <<caller, reqNo, form, data, filter, cnxn, cursor, nextHandle, acquired, open,
                   sql, params, pvsOutcome, searchCalls, connects, context, llmCalls,
                   llmFailures, prompts, llmOut, response>>

\* What the finally block leaves open of the handles it is given.
ReleaseNothing(handles, local) == handles

Release(handles, local) == IF local # None THEN handles \ {local[1]} ELSE handles

PvsFinally ==
    /\ pc = "pvs_finally"
    /\ open' = Release(Release(open, cursor), cnxn)
    /\ pvsOutcome' = IF pvsFailAt = "none" THEN "returned" ELSE "raised"
    /\ pc' = "pvs_exit"
    /\ UNCHANGED <<caller, reqNo, form, data, filter, cnxn, cursor, nextHandle, acquired, sql,
                   params, results, pvsFailAt, searchCalls, connects, context, llmCalls,
                   llmFailures, prompts, llmOut, response>>

\* ------------------------------------------------------ get_llm_response
\* The call raises before llm.invoke (credential or client construction).
LlmRaisesEarly ==
    /\ llmCalls' = llmCalls + 1
    /\ llmFailures' = llmFailures + 1
    /\ UNCHANGED <<prompts, llmOut>>

\* llm.invoke(prompt) raises.
LlmInvokeRaises(query, ctx) ==
    /\ llmCalls' = llmCalls + 1
    /\ llmFailures' = llmFailures + 1
    /\ prompts' = Append(prompts, BuildPrompt(query, ctx))
    /\ UNCHANGED llmOut

\* llm.invoke(prompt).content is returned.
LlmReturns(query, ctx, out) ==
    /\ llmCalls' = llmCalls + 1
    /\ prompts' = Append(prompts, BuildPrompt(query, ctx))
    /\ llmOut' = out
    /\ UNCHANGED llmFailures

\* ------------------------------------------------------ responses
Redirect == [NoResponse EXCEPT !.kind = "redirect", !.status = 302]

RenderHello(req) == [NoResponse EXCEPT !.kind = "answer", !.status = 200, !.answer = req]

RenderError == [NoResponse EXCEPT !.kind = "error_page", !.status = 200, !.error = "exception"]

JsonError(msg, status) == [NoResponse EXCEPT !.kind = "json_error", !.status = status, !.error = msg]

JsonResults(rs) == [NoResponse EXCEPT !.kind = "json_results", !.status = 200, !.results = rs]

\* What api_search answers once perform_vector_search has returned or raised.
\* api_search that answers a failed search with whatever results there are.
ApiSearchResponseAbsorbing(outcome, rs) == JsonResults(rs)

ApiSearchResponse(outcome, rs) ==
    IF outcome = "returned" THEN JsonResults(rs) ELSE JsonError("exception", 500)

\* ------------------------------------------------------ hello
hello(q) ==
    /\ pc = "idle"
    /\ NewRequest("hello")
    /\ form' = q
    /\ data' = NoData
    /\ IF Truthy(q)
       THEN /\ filter' = SearchArgs(q[1], HelloMaxResults, DefaultMinScore,
                                    DefaultMinTextLength, None, TRUE)
            /\ searchCalls' = 1
            /\ response' = NoResponse
            /\ pc' = "pvs_connect"
       ELSE /\ filter' = NoFilter
            /\ searchCalls' = 0
            /\ response' = Redirect
            /\ pc' = "done"

HelloAfterSearch ==
    /\ pc = "pvs_exit"
    /\ caller = "hello"
    /\ IF pvsOutcome = "returned"
       THEN /\ context' = FormatContext(results)
            /\ pc' = "llm_context"
       ELSE /\ pc' = "llm_fallback"
            /\ UNCHANGED context
    /\ UNCHANGED <<caller, reqNo, form, data, filter, cnxn, cursor, nextHandle, acquired, open,
                   sql, params, results, pvsFailAt, pvsOutcome, searchCalls, connects,
                   llmCalls, llmFailures, prompts, llmOut, response>>

\* response = get_llm_response(user_query, context), inside the inner try
HelloLlmContext ==
    /\ pc = "llm_context"
    /\ \/ /\ LlmRaisesEarly \/ LlmInvokeRaises(form[1], context)
          /\ pc' = "llm_fallback"
          /\ UNCHANGED response
       \/ \E out \in Outputs :
             /\ LlmReturns(form[1], context, out)
             /\ response' = RenderHello(out)
             /\ pc' = "done"
    /\ UNCHANGED <<caller, reqNo, form, data, filter, cnxn, cursor, nextHandle, acquired, open,
                   sql, params, results, pvsFailAt, pvsOutcome, searchCalls, connects, context>>

\* response = get_llm_response(user_query), inside the except clause of the inner try
HelloLlmFallback ==
    /\ pc = "llm_fallback"
    /\ \/ /\ LlmRaisesEarly \/ LlmInvokeRaises(form[1], None)
          /\ response' = RenderError
       \/ \E out \in Outputs :
             /\ LlmReturns(form[1], None, out)
             /\ response' = RenderHello(out)
    /\ pc' = "done"
    /\ UNCHANGED <<caller, reqNo, form, data, filter, cnxn, cursor, nextHandle, acquired, open,
                   sql, params, results, pvsFailAt, pvsOutcome, searchCalls, connects, context>>

\* ------------------------------------------------------ api_search
IntOpts(S) == {None} \cup {Some(n) : n \in S}

Bodies ==
    {[NoData EXCEPT !.kind = "unparsable"], NoData}
    \cup [kind : {"object"}, query : FormQueries, keyword : Keywords,
          min_score : IntOpts(MinScores), max_results : IntOpts(MaxResultsVals)]

\* dict.get(key, default)
Get(opt, default) == IF opt = None THEN default ELSE opt[1]

\* not data or 'query' not in data
MissingQuery(d) == d.kind = "none" \/ d.query = None

api_search(d) ==
    /\ pc = "idle"
    /\ NewRequest("api")
    /\ form' = None
    /\ data' = d
    /\ IF d.kind = "unparsable"
       THEN /\ response' = JsonError("exception", 500)
            /\ filter' = NoFilter
            /\ searchCalls' = 0
            /\ pc' = "done"
       ELSE IF MissingQuery(d)
       THEN /\ response' = JsonError("Missing query parameter", 400)
            /\ filter' = NoFilter
            /\ searchCalls' = 0
            /\ pc' = "done"
       ELSE /\ filter' = SearchArgs(d.query[1], Get(d.max_results, DefaultMaxResults),
                                    Get(d.min_score, DefaultMinScore), DefaultMinTextLength,
                                    d.keyword, TRUE)
            /\ searchCalls' = 1
            /\ response' = NoResponse
            /\ pc' = "pvs_connect"

ApiAfterSearch ==
    /\ pc = "pvs_exit"
    /\ caller = "api"
    /\ response' = ApiSearchResponse(pvsOutcome, results)
    /\ pc' = "done"
    /\ UNCHANGED <<caller, reqNo, form, data, filter, cnxn, cursor, nextHandle, acquired, open,
                   sql, params, results, pvsFailAt, pvsOutcome, searchCalls, connects, context,
                   llmCalls, llmFailures, prompts, llmOut>>

\* ------------------------------------------------------ perform_vector_search called directly
Filters ==
    [user_message : {<<"q">>}, max_results : MaxResultsVals, min_score : MinScores,
     min_text_length : MinTextLengths, keyword : Keywords, exclude_anonymous : BOOLEAN]

perform_vector_search(f) ==
    /\ pc = "idle"
    /\ NewRequest("direct")
    /\ form' = None
    /\ data' = NoData
    /\ filter' = f
    /\ searchCalls' = 1
    /\ response' = NoResponse
    /\ pc' = "pvs_connect"

DirectAfterSearch ==
    /\ pc = "pvs_exit"
    /\ caller = "direct"
    /\ response' = [NoResponse EXCEPT !.kind = pvsOutcome, !.results = results]
    /\ pc' = "done"
    /\ UNCHANGED <<caller, reqNo, form, data, filter, cnxn, cursor, nextHandle, acquired, open,
                   sql, params, results, pvsFailAt, pvsOutcome, searchCalls, connects, context,
                   llmCalls, llmFailures, prompts, llmOut>>

\* ------------------------------------------------------ specification
Next ==
    \/ \E q \in FormQueries : hello(q)
    \/ HelloAfterSearch
    \/ HelloLlmContext
    \/ HelloLlmFallback
    \/ \E d \in Bodies : api_search(d)
    \/ ApiAfterSearch
    \/ \E f \in Filters : perform_vector_search(f)
    \/ DirectAfterSearch
    \/ PvsConnect
    \/ PvsCursor
    \/ PvsExecute
    \/ PvsFetch
    \/ PvsFinally
    \/ Return

Spec == Init /\ [][Next]_vars

\* ====================================================== properties
InSearch == pc \in {"pvs_connect", "pvs_cursor", "pvs_execute", "pvs_fetch", "pvs_finally"}

Last(s) == s[Len(s)]

\* ------------------------------------------------------ C1
\* C1: in a form request with a non-empty query whose perform_vector_search raised,
\* the model client is called once, every prompt it is sent is the raw query, and
\* the request ends with the answer page showing the completion unchanged; the only
\* other ending is the error page, and only when the model call itself raised.
C1_RetrievalFailureFallsBack ==
    (caller = "hello" /\ pvsOutcome = "raised") =>
        /\ Truthy(form)
        /\ llmCalls <= 1
        /\ \A i \in 1..Len(prompts) : prompts[i] = form[1]
        /\ pc = "done" =>
              /\ llmCalls = 1
              /\ llmFailures = 0 =>
                    /\ response.kind = "answer"
                    /\ response.status = 200
                    /\ response.answer = llmOut
                    /\ prompts = <<form[1]>>
              /\ llmFailures > 0 => response.kind = "error_page"

C1_Witness ==
    /\ caller = "hello"
    /\ pvsOutcome = "raised"
    /\ pc = "done"
    /\ response.kind = "answer"
    /\ response.answer = <<"X">>
    /\ prompts = <<form[1]>>

\* ------------------------------------------------------ C2
\* C2: in a form request, a model call that raised ends the request with the error
\* page: it is the only model call of the request and no answer page follows.
C2_ModelFailureIsFatal ==
    (caller = "hello" /\ llmFailures > 0 /\ pc = "done") =>
        /\ llmCalls = 1
        /\ response.kind = "error_page"

\* ------------------------------------------------------ C3
\* C3: a request whose query is missing, empty or whitespace only never calls
\* perform_vector_search or get_llm_response; the form endpoint redirects.
C3_BlankQueryShortCircuits ==
    /\ (caller = "hello" /\ IsBlank(form)) =>
          /\ searchCalls = 0
          /\ llmCalls = 0
          /\ pc = "done" => response.kind = "redirect"
    /\ (caller = "api" /\ data.kind # "unparsable" /\ IsBlank(data.query)) => searchCalls = 0

\* ------------------------------------------------------ C4
PrecedingToken(s) == [i \in 1..Len(s) |-> IF s[i] = "?" /\ i > 1 THEN s[i - 1] ELSE "-"]

IsSlot(t) == t # "-"

\* The placeholders of a statement, each named by the text it follows.
Placeholders(s) == SelectSeq(PrecedingToken(s), IsSlot)

PlaceholderCount(s) == Cardinality({i \in 1..Len(s) : s[i] = "?"})

\* The value that belongs to a placeholder.
SlotValue(slot, f) ==
    CASE slot = "EXEC dbo.GET_EMBEDDINGS @text =" -> StrParam(f.user_message)
      [] slot = "SELECT TOP(" -> IntParam(f.max_results)
      [] slot = " AND f.Score >=" -> IntParam(f.min_score)
      [] slot = " AND LEN(f.Text) >" -> IntParam(f.min_text_length)
      [] slot = " AND f.Text LIKE" -> StrParam(<<"%">> \o f.keyword[1] \o <<"%">>)
      [] OTHER -> <<"none">>

AnonymousClause == " AND f.UserId NOT LIKE 'Anonymous%'"
MinScoreClause == " AND f.Score >="
MinLengthClause == " AND LEN(f.Text) >"
KeywordClause == " AND f.Text LIKE"

IsOptionalClause(t) == t \in {AnonymousClause, MinScoreClause, MinLengthClause, KeywordClause}

IsBindingClause(t) == t \in {MinScoreClause, MinLengthClause, KeywordClause}

OptionalClauses(s) == SelectSeq(s, IsOptionalClause)

BindingClauses(s) == SelectSeq(s, IsBindingClause)

HasKeyword(f) == f.keyword # None /\ Len(f.keyword[1]) > 0

ClaimedParams(f) ==
    <<StrParam(f.user_message), IntParam(f.max_results)>>
    \o (IF f.min_score > 0 THEN <<IntParam(f.min_score)>> ELSE <<>>)
    \o (IF f.min_text_length > 0 THEN <<IntParam(f.min_text_length)>> ELSE <<>>)
    \o (IF HasKeyword(f) THEN <<StrParam(<<"%">> \o f.keyword[1] \o <<"%">>)>> ELSE <<>>)

ClaimedClauses(f) ==
    (IF f.exclude_anonymous THEN <<AnonymousClause>> ELSE <<>>)
    \o (IF f.min_score > 0 THEN <<MinScoreClause>> ELSE <<>>)
    \o (IF f.min_text_length > 0 THEN <<MinLengthClause>> ELSE <<>>)
    \o (IF HasKeyword(f) THEN <<KeywordClause>> ELSE <<>>)

\* C4: the statement built by perform_vector_search has as many placeholders as
\* bound parameters, the i-th parameter is the value of the i-th placeholder, the
\* list is [query, max_results], then min_score iff > 0, min_text_length iff > 0,
\* '%keyword%' iff keyword is non-empty, and the optional clauses come in the order
\* anonymous-exclusion, min-score, min-text-length, keyword.
C4_ParamsMatchPlaceholders ==
    sql # <<>> =>
        /\ PlaceholderCount(sql) = Len(params)
        /\ Len(Placeholders(sql)) = Len(params)
        /\ \A i \in 1..Len(params) : params[i] = SlotValue(Placeholders(sql)[i], filter)
        /\ params = ClaimedParams(filter)
        /\ OptionalClauses(sql) = ClaimedClauses(filter)
        /\ (filter.exclude_anonymous /\ filter.min_score = 4 /\ filter.min_text_length = 50
              /\ filter.keyword = None) =>
              /\ params = <<StrParam(filter.user_message), IntParam(filter.max_results),
                            IntParam(4), IntParam(50)>>
              /\ \E i \in 1..Len(sql) : sql[i] = AnonymousClause
              /\ \A i \in 1..Len(sql) : sql[i] # KeywordClause

C4_Witness ==
    /\ sql # <<>>
    /\ filter.exclude_anonymous
    /\ filter.min_score = 4
    /\ filter.min_text_length = 50
    /\ HasKeyword(filter)
    /\ Len(params) = 5

\* ------------------------------------------------------ C5
\* C5 as stated: the number of bound parameters is the number of optional filter
\* clauses appended to the WHERE clause plus 2.
C5_ParamsAreClausesPlusTwo ==
    sql # <<>> => Len(params) = Len(OptionalClauses(sql)) + 2

\* C5 amended: the number of bound parameters is the number of appended optional
\* clauses that bind a value (min-score, min-text-length, keyword) plus 2, the
\* anonymous-exclusion clause binding none; min_score = 0 omits the min-score clause
\* and its parameter, one parameter fewer than the same filter with min_score > 0.
C5_ParamsAreBindingClausesPlusTwo ==
    sql # <<>> =>
        /\ Len(params) = Len(BindingClauses(sql)) + 2
        /\ Len(params) = Len(OptionalClauses(sql)) + 2 - (IF filter.exclude_anonymous THEN 1 ELSE 0)
        /\ filter.min_score = 0 =>
              /\ \A i \in 1..Len(sql) : sql[i] # MinScoreClause
              /\ \A i \in 1..Len(Placeholders(sql)) : Placeholders(sql)[i] # MinScoreClause
              /\ \A m \in MinScores : m > 0 =>
                    /\ Len(BuildParams([filter EXCEPT !.min_score = m])) = Len(params) + 1
                    /\ Len(BuildSql([filter EXCEPT !.min_score = m])) = Len(sql) + 2

C5_Witness ==
    /\ sql # <<>>
    /\ filter.min_score = 0
    /\ filter.exclude_anonymous
    /\ filter.min_text_length > 0
    /\ Len(params) = 3

\* ------------------------------------------------------ C6
NoDuplicates(s) == \A i, j \in 1..Len(s) : s[i] = s[j] => i = j

Held == (IF cnxn = None THEN {} ELSE {cnxn[1]}) \cup (IF cursor = None THEN {} ELSE {cursor[1]})

\* C6: once perform_vector_search has returned or raised, every connection and cursor
\* it acquired is closed; a failure is raised to the caller, after the release and
\* after a single connection attempt; no handle is acquired twice, and during a call
\* only the handles of that call are open.
C6_ResourcesReleased ==
    /\ ~InSearch => open = {}
    /\ InSearch => open \subseteq Held
    /\ pvsOutcome # "none" =>
          /\ open = {}
          /\ pvsOutcome = "raised" <=> pvsFailAt # "none"
    /\ (~InSearch /\ pc # "idle" /\ searchCalls > 0) => pvsOutcome # "none"
    /\ connects <= 1
    /\ NoDuplicates(acquired)
    /\ \A h \in Held : \E i \in 1..Len(acquired) : acquired[i] = h
    /\ (cnxn # None /\ cursor # None) => cnxn # cursor

C6_Witness ==
    /\ pvsOutcome = "raised"
    /\ pvsFailAt = "execute"
    /\ cnxn # None
    /\ cursor # None
    /\ open = {}
    /\ reqNo = 2

\* ------------------------------------------------------ C7
InstructionPrompt(block, query) ==
    <<"Based on the following information:", "\n            \n">> \o block
    \o <<"\n\n", "Answer the user's question: ">> \o query

\* C7: in a form request whose retrieval succeeded, the last prompt sent to the model
\* is the instruction template around the ContextBlock and the query when the
\* ContextBlock is present, and the raw query when it is absent.
C7_PromptFollowsContext ==
    (caller = "hello" /\ pvsOutcome = "returned" /\ prompts # <<>>) =>
        Last(prompts) = IF context # None THEN InstructionPrompt(context[1], form[1]) ELSE form[1]

\* ------------------------------------------------------ C8
ClaimedLine(r) == <<"Review (Score: ", DigitChars[r.score + 1], "/5): ">> \o r.text

RECURSIVE ClaimedBlock(_)
ClaimedBlock(rs) ==
    IF Len(rs) = 1 THEN ClaimedLine(rs[1])
    ELSE ClaimedLine(rs[1]) \o <<"\n\n">> \o ClaimedBlock(Tail(rs))

Separators(block) == Cardinality({i \in 1..Len(block) : block[i] = "\n\n"})

ContextAssembled == caller = "hello" /\ pvsOutcome = "returned" /\ pc \in {"llm_context", "llm_fallback", "done"}

\* C8: the context built by hello is None exactly when no record was retrieved, and
\* otherwise the lines 'Review (Score: {score}/5): {text}' of the records in input
\* order, with one "\n\n" between consecutive lines and none before or after.
C8_ContextBlock ==
    ContextAssembled =>
        /\ context = None <=> Len(results) = 0
        /\ Len(results) > 0 =>
              /\ context[1] = ClaimedBlock(results)
              /\ Separators(context[1]) = Len(results) - 1
              /\ context[1][1] = "Review (Score: "
              /\ Last(context[1]) # "\n\n"
        /\ (Len(results) = 2 /\ results[1].score = 5 /\ results[1].text = <<"A">>
              /\ results[2].score = 2 /\ results[2].text = <<"B">>) =>
              context = Some(<<"Review (Score: ", "5", "/5): ", "A", "\n\n",
                               "Review (Score: ", "2", "/5): ", "B">>)

C8_Witness ==
    /\ ContextAssembled
    /\ Len(results) = 2
    /\ results[1].score = 5
    /\ results[1].text = <<"A">>
    /\ results[2].score = 2
    /\ results[2].text = <<"B">>
    /\ context # None

OutOfRange(d) ==
    \/ d.min_score # None /\ d.min_score[1] \notin 0..5
    \/ d.max_results # None /\ d.max_results[1] < 1

\* C10: api_search rejects a min_score outside 0..5 or a max_results below 1 with a
\* client error before any statement is built or executed.
C10_OutOfRangeRejected ==
    (caller = "api" /\ data.kind = "object" /\ data.query # None /\ OutOfRange(data)) =>
        /\ searchCalls = 0
        /\ sql = <<>>
        /\ pc = "done" => response.status = 400
====
